---- MODULE Spec2Model ----
(***************************************************************************)
(* Model of internet_status: the ping response parser and classifier       *)
(* (src/ping.py) and the log aggregator (src/log_parser.py).               *)
(*                                                                         *)
(* Text is a sequence of symbols.  A symbol is one character ("1", ",",    *)
(* "%", "=", "/", "-", "@", " ", "\n") or one whole word or marker that    *)
(* the code only ever tests with `in` ("packet loss", the command-exit     *)
(* message, the log markers).  Substring containment of a marker is        *)
(* membership of its symbol.                                               *)
(***************************************************************************)
EXTENDS Integers, Sequences, FiniteSets, TLC

VARIABLES pc, url, response, report, parsed_ping_dict, exc, parser_error,
          classifier_input, classifier_ran, read_keys,
          log_pc, log_file_string, internet_status_summary, summary_order,
          log_exc

pingVars == <<pc, url, response, report, parsed_ping_dict, exc, parser_error,
              classifier_input, classifier_ran, read_keys>>
logVars == <<log_pc, log_file_string, internet_status_summary, summary_order,
             log_exc>>
vars == <<pingVars, logVars>>

(***************************************************************************)
(* Bounds of the model.                                                    *)
(***************************************************************************)
MaxLines == 3
MaxExtraClauses == 1
MaxLogLines == 3

(***************************************************************************)
(* Python text primitives.                                                 *)
(***************************************************************************)
Range(s) == {s[i] : i \in 1..Len(s)}

\* `marker in text`
Contains(text, marker) == marker \in Range(text)

FirstIndex(s, sep) == CHOOSE i \in 1..Len(s) : s[i] = sep /\ \A j \in 1..(i - 1) : s[j] # sep

\* str.split(sep): always at least one piece, empty pieces kept
RECURSIVE Split(_, _)
Split(s, sep) ==
    IF Contains(s, sep)
    THEN <<SubSeq(s, 1, FirstIndex(s, sep) - 1)>>
            \o Split(SubSeq(s, FirstIndex(s, sep) + 1, Len(s)), sep)
    ELSE <<s>>

\* str.splitlines(): no piece for empty text, no empty piece after a final newline
RECURSIVE splitlines(_)
splitlines(s) ==
    IF Len(s) = 0 THEN <<>>
    ELSE IF Contains(s, "\n")
         THEN <<SubSeq(s, 1, FirstIndex(s, "\n") - 1)>>
                 \o splitlines(SubSeq(s, FirstIndex(s, "\n") + 1, Len(s)))
         ELSE <<s>>

Whitespace == {" ", "\n"}

RECURSIVE LStrip(_)
LStrip(s) == IF Len(s) > 0 /\ s[1] \in Whitespace THEN LStrip(Tail(s)) ELSE s

RECURSIVE RStrip(_)
RStrip(s) ==
    IF Len(s) > 0 /\ s[Len(s)] \in Whitespace THEN RStrip(SubSeq(s, 1, Len(s) - 1)) ELSE s

Strip(s) == LStrip(RStrip(s))

DigitValue ==
    [c \in {"0", "1", "2", "3", "4", "5", "6", "7", "8", "9"} |->
        CASE c = "0" -> 0 [] c = "1" -> 1 [] c = "2" -> 2 [] c = "3" -> 3
          [] c = "4" -> 4 [] c = "5" -> 5 [] c = "6" -> 6 [] c = "7" -> 7
          [] c = "8" -> 8 [] c = "9" -> 9]

Digits == DOMAIN DigitValue

RECURSIVE DigitsToInt(_)
DigitsToInt(s) ==
    IF Len(s) = 0 THEN 0
    ELSE 10 * DigitsToInt(SubSeq(s, 1, Len(s) - 1)) + DigitValue[s[Len(s)]]

RECURSIVE Pow10(_)
Pow10(e) == IF e = 0 THEN 1 ELSE 10 * Pow10(e - 1)

\* int(text): surrounding whitespace is ignored, then decimal digits only.
\* ok = FALSE stands for ValueError.
int(text) ==
    LET t == Strip(text)
    IN  IF Len(t) > 0 /\ Range(t) \subseteq Digits
        THEN [ok |-> TRUE, value |-> DigitsToInt(t)]
        ELSE [ok |-> FALSE, value |-> 0]

\* float(text): surrounding whitespace is ignored, then digits with at most
\* one decimal point and at least one digit.  The value is m / 10^e.
\* ok = FALSE stands for ValueError.
float(text) ==
    LET t == Strip(text)
        points == {i \in 1..Len(t) : t[i] = "."}
        digits == SelectSeq(t, LAMBDA c : c # ".")
    IN  IF /\ Range(t) \subseteq Digits \cup {"."}
           /\ Cardinality(points) <= 1
           /\ Len(digits) > 0
        THEN [ok |-> TRUE,
              value |-> [m |-> DigitsToInt(digits),
                         e |-> IF points = {} THEN 0
                               ELSE Len(t) - (CHOOSE i \in points : TRUE)]]
        ELSE [ok |-> FALSE, value |-> [m |-> 0, e |-> 0]]

\* a > limit for a float a = m / 10^e and an integer limit
FloatGreater(a, limit) == a.m > limit * Pow10(a.e)

\* a == b as numbers
FloatEq(a, b) == a.m * Pow10(b.e) = b.m * Pow10(a.e)

(***************************************************************************)
(* Vocabulary shared by the write path and the aggregator.                 *)
(***************************************************************************)
COMMAND_EXIT_ERROR_MESSAGE == "returned non-zero exit status"
LOCAL_ROUTER == "192.168.1.1"
EXTERNAL_HOST == "www.google.com"

None == "None"
LOCAL_ROUTER_ERROR == "local router error"
MODEM_ERROR == "modem error"
RESOLVE_HOST_ERROR == "resolve host error"
PACKET_LOSS_ERROR == "packet loss error"
ROUND_TRIP_TIME_ERROR == "round trip time error"
OK == ""

MAX_ACCEPTABLE_PACKET_LOSS == 5
MAX_ACCEPTABLE_AVERAGE_ROUND_TRIP_TIME == 20

NumericKeys ==
    {"num_packets_sent", "packet_loss_percent", "average_round_trip_time",
     "max_round_trip_time"}

\* the value a raising call leaves its caller with: no dictionary at all
NoDict == <<>>

\* dictionary[key] = value
SetKey(d, key, value) == (key :> value) @@ d

\* Python truth of the 'error' entry: None and '' are false
Truthy(error) == error \notin {None, ""}

(***************************************************************************)
(* Ping.parse_ping_response and its helpers.                               *)
(***************************************************************************)
check_if_ping_executed_successfully(split_ping_response) ==
    ~Contains(split_ping_response[1], COMMAND_EXIT_ERROR_MESSAGE)

\* variant: the single-line test left out
determine_if_able_always(u, split_ping_response) == TRUE

\* variant: the line count compared off by one
determine_if_able_off_by_one(u, split_ping_response) ==
    Len(split_ping_response) > 2


determine_if_able_to_resolve_host(u, split_ping_response) ==
    Len(split_ping_response) # 1

\* variant: the two branches of the target test exchanged
execution_failure_error_swapped(u) ==
    IF u = LOCAL_ROUTER THEN MODEM_ERROR ELSE LOCAL_ROUTER_ERROR


execution_failure_error(u) ==
    IF u = LOCAL_ROUTER THEN LOCAL_ROUTER_ERROR ELSE MODEM_ERROR

\* variant: the packet-loss clause taken from a fixed position
scan_packet_loss_fixed_index(d, split_ping_summary, i) ==
    IF Len(split_ping_summary) < 3 THEN [exc |-> "IndexError", dict |-> NoDict]
    ELSE LET loss == float(Split(split_ping_summary[3], "%")[1])
         IN  IF loss.ok
             THEN [exc |-> "none", dict |-> SetKey(d, "packet_loss_percent", loss.value)]
             ELSE [exc |-> "ValueError", dict |-> NoDict]

\* the loop over the comma segments: every segment containing 'packet loss'
\* is converted and stored, a later one overwriting an earlier one
RECURSIVE scan_packet_loss(_, _, _)
scan_packet_loss(d, split_ping_summary, i) ==
    IF i > Len(split_ping_summary) THEN [exc |-> "none", dict |-> d]
    ELSE IF Contains(split_ping_summary[i], "packet loss")
         THEN LET loss == float(Split(split_ping_summary[i], "%")[1])
              IN  IF loss.ok
                  THEN scan_packet_loss(
                           SetKey(d, "packet_loss_percent", loss.value),
                           split_ping_summary, i + 1)
                  ELSE [exc |-> "ValueError", dict |-> NoDict]
         ELSE scan_packet_loss(d, split_ping_summary, i + 1)

parse_ping_summary_and_update_parsed_ping_dict(d, ping_summary) ==
    LET split_ping_summary == Split(ping_summary, ",")
        packets_transmitted_data == split_ping_summary[1]
        sent == int(Split(packets_transmitted_data, " ")[1])
    IN  IF ~sent.ok THEN [exc |-> "ValueError", dict |-> NoDict]
        ELSE scan_packet_loss(SetKey(d, "num_packets_sent", sent.value),
                              split_ping_summary, 1)

parse_ping_timing_and_update_parsed_ping_dict(d, ping_timing) ==
    LET by_equals == Split(ping_timing, "=")
    IN  IF Len(by_equals) < 2 THEN [exc |-> "IndexError", dict |-> NoDict]
        ELSE LET split_ping_timing == Split(by_equals[2], "/")
             IN  IF Len(split_ping_timing) < 2
                 THEN [exc |-> "IndexError", dict |-> NoDict]
                 ELSE LET average == float(split_ping_timing[2])
                      IN  IF ~average.ok
                          THEN [exc |-> "ValueError", dict |-> NoDict]
                          ELSE IF Len(split_ping_timing) < 3
                          THEN [exc |-> "IndexError", dict |-> NoDict]
                          ELSE LET maximum == float(split_ping_timing[3])
                               IN  IF ~maximum.ok
                                   THEN [exc |-> "ValueError", dict |-> NoDict]
                                   ELSE [exc |-> "none",
                                         dict |->
                                           SetKey(SetKey(d, "average_round_trip_time",
                                                         average.value),
                                                  "max_round_trip_time",
                                                  maximum.value)]

parse_ping_response(u, r) ==
    LET initial == [host |-> u, able_to_resolve_host |-> FALSE, error |-> None]
        split_ping_response == splitlines(r)
        n == Len(split_ping_response)
    IN  IF n = 0 THEN [exc |-> "IndexError", dict |-> NoDict]
        ELSE IF ~check_if_ping_executed_successfully(split_ping_response)
        THEN [exc |-> "none",
              dict |-> [initial EXCEPT !.error = execution_failure_error(u)]]
        ELSE IF ~determine_if_able_to_resolve_host(u, split_ping_response)
        THEN [exc |-> "none", dict |-> initial]
        ELSE IF n < 2 THEN [exc |-> "IndexError", dict |-> NoDict]
        ELSE LET resolved == [initial EXCEPT !.able_to_resolve_host = TRUE]
                 summary == parse_ping_summary_and_update_parsed_ping_dict(
                                resolved, split_ping_response[n - 1])
             IN  IF summary.exc # "none" THEN summary
                 ELSE parse_ping_timing_and_update_parsed_ping_dict(
                          summary.dict, split_ping_response[n])

(***************************************************************************)
(* Ping.check_if_ping_was_successful and its helpers.                      *)
(***************************************************************************)
check_if_ping_resolve_host(d) == d.able_to_resolve_host

\* variant: a loss equal to the limit rejected
check_if_ping_packet_loss_below_limit(d) ==
    /\ ~FloatGreater(d.packet_loss_percent, MAX_ACCEPTABLE_PACKET_LOSS)
    /\ ~FloatEq(d.packet_loss_percent, [m |-> MAX_ACCEPTABLE_PACKET_LOSS, e |-> 0])


check_if_ping_packet_loss_acceptable(d) ==
    ~FloatGreater(d.packet_loss_percent, MAX_ACCEPTABLE_PACKET_LOSS)

check_if_ping_round_trip_time_acceptable(d) ==
    ~FloatGreater(d.average_round_trip_time, MAX_ACCEPTABLE_AVERAGE_ROUND_TRIP_TIME)

\* exc = "KeyError" when a check reads a key the dictionary does not have;
\* reads = the keys the checks looked up
check_if_ping_was_successful(d) ==
    IF ~check_if_ping_resolve_host(d)
    THEN [exc |-> "none", dict |-> [d EXCEPT !.error = RESOLVE_HOST_ERROR],
          reads |-> {"able_to_resolve_host"}]
    ELSE IF "packet_loss_percent" \notin DOMAIN d
    THEN [exc |-> "KeyError", dict |-> d,
          reads |-> {"able_to_resolve_host", "packet_loss_percent"}]
    ELSE IF ~check_if_ping_packet_loss_acceptable(d)
    THEN [exc |-> "none", dict |-> [d EXCEPT !.error = PACKET_LOSS_ERROR],
          reads |-> {"able_to_resolve_host", "packet_loss_percent"}]
    ELSE IF "average_round_trip_time" \notin DOMAIN d
    THEN [exc |-> "KeyError", dict |-> d,
          reads |-> {"able_to_resolve_host", "packet_loss_percent",
                     "average_round_trip_time"}]
    ELSE IF ~check_if_ping_round_trip_time_acceptable(d)
    THEN [exc |-> "none", dict |-> [d EXCEPT !.error = ROUND_TRIP_TIME_ERROR],
          reads |-> {"able_to_resolve_host", "packet_loss_percent",
                     "average_round_trip_time"}]
    ELSE [exc |-> "none", dict |-> [d EXCEPT !.error = OK],
          reads |-> {"able_to_resolve_host", "packet_loss_percent",
                     "average_round_trip_time"}]

\* variant: the classifier run whatever the parser reported
should_classify_always(d) == TRUE

\* `if not parsed_ping_dict[RESPONSE_KEY_ERROR]`
should_classify(d) == ~Truthy(d.error)

(***************************************************************************)
(* The text ping prints (the docstring examples of the two parse helpers). *)
(***************************************************************************)
DigitChar == <<"0", "1", "2", "3", "4", "5", "6", "7", "8", "9">>

RECURSIVE FormatInt(_)
FormatInt(n) ==
    IF n < 10 THEN <<DigitChar[n + 1]>>
    ELSE FormatInt(n \div 10) \o <<DigitChar[(n % 10) + 1]>>

RECURSIVE ZeroPad(_, _)
ZeroPad(s, width) == IF Len(s) >= width THEN s ELSE ZeroPad(<<"0">> \o s, width)

\* the decimal text of m / 10^e with exactly e fractional digits
FormatFloat(f) ==
    LET digits == ZeroPad(FormatInt(f.m), f.e + 1)
        whole == Len(digits) - f.e
    IN  IF f.e = 0 THEN digits
        ELSE SubSeq(digits, 1, whole) \o <<".">> \o SubSeq(digits, whole + 1, Len(digits))

RECURSIVE ExtraClauses(_)
ExtraClauses(k) ==
    IF k = 0 THEN <<>>
    ELSE <<" ", "+", "1", " ", "duplicates", ",">> \o ExtraClauses(k - 1)

\* "10 packets transmitted, 10 packets received, 0.0% packet loss", with k
\* further clauses in front of the packet-loss clause
SummaryLine(sent, k, loss) ==
    FormatInt(sent) \o <<" ", "packets transmitted", ",", " ">>
        \o FormatInt(sent) \o <<" ", "packets received", ",">>
        \o ExtraClauses(k)
        \o <<" ">> \o FormatFloat(loss) \o <<"%", " ", "packet loss">>

\* "round-trip min/avg/max/stddev = 3.084/8.829/11.708/2.290 ms"
TimingLine(average, maximum) ==
    <<"round-trip min", "/", "avg", "/", "max", "/", "stddev", " ", "=", " ">>
        \o <<"3", ".", "0", "8", "4", "/">> \o FormatFloat(average)
        \o <<"/">> \o FormatFloat(maximum)
        \o <<"/", "2", ".", "2", "9", "0", " ", "ms">>

HeaderLine == <<"PING", " ", "host">>
ExitLine == <<"Command", " ", COMMAND_EXIT_ERROR_MESSAGE, " ", "6", "8">>
UnknownHostLine == <<"ping: cannot resolve", " ", "host">>

RECURSIVE JoinLines(_)
JoinLines(lines) ==
    IF Len(lines) = 0 THEN <<>>
    ELSE IF Len(lines) = 1 THEN lines[1]
    ELSE lines[1] \o <<"\n">> \o JoinLines(Tail(lines))

SentSamples == {1, 10}
LossSamples == {[m |-> 0, e |-> 1], [m |-> 5, e |-> 0], [m |-> 51, e |-> 1]}
AverageSamples == {[m |-> 8829, e |-> 3], [m |-> 200, e |-> 1], [m |-> 2001, e |-> 2]}
MaximumSamples == {[m |-> 11708, e |-> 3], [m |-> 30, e |-> 0]}

Reports ==
    [sent : SentSamples, loss : LossSamples, average : AverageSamples,
     maximum : MaximumSamples, extra : 0..MaxExtraClauses, headers : 0..1,
     newline : BOOLEAN]

\* a full report: optional header, summary line, timing line, optional final newline
FormatReport(p) ==
    JoinLines((IF p.headers = 1 THEN <<HeaderLine>> ELSE <<>>)
                 \o <<SummaryLine(p.sent, p.extra, p.loss),
                      TimingLine(p.average, p.maximum)>>)
        \o (IF p.newline THEN <<"\n">> ELSE <<>>)

\* lines of every shape the parser distinguishes, sound and broken
LinePool ==
    {ExitLine, UnknownHostLine, HeaderLine, <<>>,
     SummaryLine(10, 0, [m |-> 0, e |-> 1]),
     <<"1", "0", " ", "packets transmitted", ",", " ", "1", "0", " ", "packets received">>,
     <<"1", "0", " ", "packets transmitted", ",", " ", "0", ".", "0", " ", "packet loss">>,
     <<"packets transmitted", ",", " ", "0", ".", "0", "%", " ", "packet loss">>,
     TimingLine([m |-> 8829, e |-> 3], [m |-> 11708, e |-> 3]),
     <<"round-trip min", " ", "1", "/", "2", "/", "3">>,
     <<"=", " ", "1", "/", "2">>,
     <<"=", " ", "1", "/", "ms", "/", "3">>}

LineLists(max) == UNION {[1..k -> LinePool] : k \in 0..max}

\* any other output, with and without its final newline
OtherResponses ==
    {JoinLines(l) : l \in LineLists(MaxLines)}
        \cup {JoinLines(l) \o <<"\n">> : l \in LineLists(MaxLines)}

\* `report` when the output was not produced by FormatReport
NoReport == [printed |-> FALSE]

Urls == {LOCAL_ROUTER, EXTERNAL_HOST}

\* what check_if_ping_was_successful may be handed when called on its own
ClassifierLossSamples ==
    {[m |-> 0, e |-> 1], [m |-> 49, e |-> 1], [m |-> 5, e |-> 0], [m |-> 50, e |-> 1],
     [m |-> 501, e |-> 2], [m |-> 6, e |-> 0], [m |-> 100, e |-> 0]}

ClassifierAverageSamples ==
    {[m |-> 0, e |-> 0], [m |-> 199, e |-> 1], [m |-> 20, e |-> 0], [m |-> 2000, e |-> 2],
     [m |-> 2001, e |-> 2], [m |-> 21, e |-> 0], [m |-> 999, e |-> 0]}

ClassifierInputs ==
    {[host |-> EXTERNAL_HOST, able_to_resolve_host |-> a, error |-> None] : a \in BOOLEAN}
    \cup {[host |-> EXTERNAL_HOST, able_to_resolve_host |-> a, error |-> None,
           packet_loss_percent |-> l] : a \in BOOLEAN, l \in ClassifierLossSamples}
    \cup {[host |-> EXTERNAL_HOST, able_to_resolve_host |-> a, error |-> None,
           packet_loss_percent |-> l, average_round_trip_time |-> t] :
              a \in BOOLEAN, l \in ClassifierLossSamples, t \in ClassifierAverageSamples}

(***************************************************************************)
(* Ping.ping_host_and_return_parsed_response, step by step.                *)
(***************************************************************************)
InitPing ==
    /\ pc = "idle"
    /\ url = LOCAL_ROUTER
    /\ response = <<>>
    /\ report = NoReport
    /\ parsed_ping_dict = NoDict
    /\ exc = "none"
    /\ parser_error = None
    /\ classifier_input = NoDict
    /\ classifier_ran = FALSE
    /\ read_keys = {}

InitLogIdle ==
    /\ log_pc = "off"
    /\ log_file_string = <<>>
    /\ internet_status_summary = <<>>
    /\ summary_order = <<>>
    /\ log_exc = "none"

\* lines 51, 58-68: ping_host hands back whatever text the command produced
ping_host ==
    /\ pc = "idle"
    /\ pc' = "pinged"
    /\ \E u \in Urls :
          /\ url' = u
          /\ \/ \E p \in Reports :
                   /\ response' = FormatReport(p)
                   /\ report' = [printed |-> TRUE, values |-> p]
             \/ \E r \in OtherResponses :
                   /\ response' = r
                   /\ report' = NoReport
    /\ UNCHANGED <<parsed_ping_dict, exc, parser_error, classifier_input,
                   classifier_ran, read_keys>>
    /\ UNCHANGED logVars

\* line 53
ParseStep ==
    /\ pc = "pinged"
    /\ LET parsed == parse_ping_response(url, response)
       IN  /\ exc' = parsed.exc
           /\ parsed_ping_dict' = parsed.dict
           /\ parser_error' = IF parsed.exc = "none" THEN parsed.dict.error ELSE None
           /\ pc' = IF parsed.exc = "none" THEN "parsed" ELSE "raised"
    /\ UNCHANGED <<url, response, report, classifier_input, classifier_ran, read_keys>>
    /\ UNCHANGED logVars

\* lines 54-55
ClassifyStep ==
    /\ pc = "parsed"
    /\ should_classify(parsed_ping_dict)
    /\ LET checked == check_if_ping_was_successful(parsed_ping_dict)
       IN  /\ exc' = checked.exc
           /\ parsed_ping_dict' = checked.dict
           /\ read_keys' = checked.reads
           /\ pc' = IF checked.exc = "none" THEN "done" ELSE "raised"
    /\ classifier_input' = parsed_ping_dict
    /\ classifier_ran' = TRUE
    /\ UNCHANGED <<url, response, report, parser_error>>
    /\ UNCHANGED logVars

\* lines 54, 56
ReturnStep ==
    /\ pc = "parsed"
    /\ ~should_classify(parsed_ping_dict)
    /\ pc' = "done"
    /\ UNCHANGED <<url, response, report, parsed_ping_dict, exc, parser_error,
                   classifier_input, classifier_ran, read_keys>>
    /\ UNCHANGED logVars

Init == InitPing /\ InitLogIdle

Next ==
    \/ ping_host
    \/ ParseStep
    \/ ClassifyStep
    \/ ReturnStep

Spec == Init /\ [][Next]_vars

(***************************************************************************)
(* Ping.check_if_ping_was_successful called on its own.                    *)
(***************************************************************************)
InitClassify ==
    /\ pc = "direct"
    /\ url = EXTERNAL_HOST
    /\ response = <<>>
    /\ report = NoReport
    /\ parsed_ping_dict = NoDict
    /\ exc = "none"
    /\ parser_error = None
    /\ classifier_input = NoDict
    /\ classifier_ran = FALSE
    /\ read_keys = {}
    /\ InitLogIdle

ClassifyDirect(d) ==
    /\ pc = "direct"
    /\ LET checked == check_if_ping_was_successful(d)
       IN  /\ exc' = checked.exc
           /\ parsed_ping_dict' = checked.dict
           /\ read_keys' = checked.reads
           /\ pc' = IF checked.exc = "none" THEN "done" ELSE "raised"
    /\ classifier_input' = d
    /\ classifier_ran' = TRUE
    /\ UNCHANGED <<url, response, report, parser_error>>
    /\ UNCHANGED logVars

NextClassify == \E d \in ClassifierInputs : ClassifyDirect(d)

SpecClassify == InitClassify /\ [][NextClassify]_vars

(***************************************************************************)
(* LogParser.parse_log.                                                    *)
(***************************************************************************)
LOGGER_STARTING_LOG == "logger starting"
LOGGER_STATUS_CHECK_RUNNING_MESSAGE == "status check running"

PARSER_PACKET_LOSS == "packet_loss"
PARSER_ROUND_TRIP_TIME == "round_trip_time"
PARSER_MODEM_DOWN == "modem_down"
PARSER_ROUTER_DOWN == "router_down"

log_message_error_to_summary_key_map ==
    <<[error |-> PACKET_LOSS_ERROR, key |-> PARSER_PACKET_LOSS],
      [error |-> ROUND_TRIP_TIME_ERROR, key |-> PARSER_ROUND_TRIP_TIME],
      [error |-> MODEM_ERROR, key |-> PARSER_MODEM_DOWN],
      [error |-> LOCAL_ROUTER_ERROR, key |-> PARSER_ROUTER_DOWN]>>

SummaryKeys ==
    {PARSER_PACKET_LOSS, PARSER_ROUND_TRIP_TIME, PARSER_MODEM_DOWN, PARSER_ROUTER_DOWN}

\* variant: the heartbeat test left out
is_lifecycle_line_banner_only(line) == Contains(line, LOGGER_STARTING_LOG)

\* lines 42-44
is_lifecycle_line(line) ==
    \/ Contains(line, LOGGER_STARTING_LOG)
    \/ Contains(line, LOGGER_STATUS_CHECK_RUNNING_MESSAGE)

\* lines 60-65: every entry of the map is tried against the message; the
\* `continue` ends one iteration of this inner loop and skips nothing
RECURSIVE count_errors(_, _, _)
count_errors(day, log_message, i) ==
    IF i > Len(log_message_error_to_summary_key_map) THEN day
    ELSE LET entry == log_message_error_to_summary_key_map[i]
         IN  count_errors(
                 IF Contains(log_message, entry.error)
                 THEN [day EXCEPT ![entry.key] = @ + 1]
                 ELSE day,
                 log_message, i + 1)

\* lines 47-49
log_date_of(line) == Split(Split(line, "-")[1], "@")[1]

\* line 59: the piece between the first and the second '-'
log_message_of(split_message) == split_message[2]

\* the loop of lines 39-65 from line i on; summary maps a date to its
\* counters, order lists the dates as first inserted
RECURSIVE parse_log_lines(_, _, _, _)
parse_log_lines(lines, i, summary, order) ==
    IF i > Len(lines) THEN [exc |-> "none", summary |-> summary, order |-> order]
    ELSE IF is_lifecycle_line(lines[i]) THEN parse_log_lines(lines, i + 1, summary, order)
    ELSE LET split_message == Split(lines[i], "-")
             log_date == log_date_of(lines[i])
             known == log_date \in DOMAIN summary
             with_date == IF known THEN summary
                          ELSE (log_date :> [k \in SummaryKeys |-> 0]) @@ summary
             new_order == IF known THEN order ELSE Append(order, log_date)
         IN  IF Len(split_message) < 2
             THEN [exc |-> "IndexError", summary |-> <<>>, order |-> <<>>]
             ELSE parse_log_lines(
                      lines, i + 1,
                      [with_date EXCEPT
                          ![log_date] = count_errors(@, log_message_of(split_message), 1)],
                      new_order)

parse_log(text) == parse_log_lines(splitlines(text), 1, <<>>, <<>>)

LogLine(date, message) == <<date, "@", "09:00", "-">> \o message

LogLinePool ==
    {LogLine("Jan01", <<PACKET_LOSS_ERROR>>),
     LogLine("Jan01", <<ROUND_TRIP_TIME_ERROR>>),
     LogLine("Jan02", <<MODEM_ERROR>>),
     LogLine("Jan02", <<LOCAL_ROUTER_ERROR>>),
     LogLine("Jan01", <<"ok">>),
     LogLine("Jan02", <<PACKET_LOSS_ERROR, " ", ROUND_TRIP_TIME_ERROR>>),
     LogLine("Jan01", <<"retry", "-", PACKET_LOSS_ERROR>>),
     LogLine("Jan01", <<LOGGER_STARTING_LOG>>),
     <<LOGGER_STATUS_CHECK_RUNNING_MESSAGE>>,
     LogLine("Jan03", <<LOGGER_STATUS_CHECK_RUNNING_MESSAGE, " ", MODEM_ERROR>>),
     <<"Jan01", "@", "09:00", " ", PACKET_LOSS_ERROR>>,
     <<"Jan02", "-", MODEM_ERROR>>}

Logs == {JoinLines(l) : l \in UNION {[1..k -> LogLinePool] : k \in 0..MaxLogLines}}

InitPingIdle ==
    /\ pc = "off"
    /\ url = LOCAL_ROUTER
    /\ response = <<>>
    /\ report = NoReport
    /\ parsed_ping_dict = NoDict
    /\ exc = "none"
    /\ parser_error = None
    /\ classifier_input = NoDict
    /\ classifier_ran = FALSE
    /\ read_keys = {}

InitLog ==
    /\ log_pc = "idle"
    /\ log_file_string = <<>>
    /\ internet_status_summary = <<>>
    /\ summary_order = <<>>
    /\ log_exc = "none"
    /\ InitPingIdle

\* lines 73: the text of the log file
get_log_file_string ==
    /\ log_pc = "idle"
    /\ log_pc' = "read"
    /\ \E text \in Logs : log_file_string' = text
    /\ UNCHANGED <<internet_status_summary, summary_order, log_exc>>
    /\ UNCHANGED pingVars

\* line 74
ParseLog ==
    /\ log_pc = "read"
    /\ LET parsed == parse_log(log_file_string)
       IN  /\ log_exc' = parsed.exc
           /\ internet_status_summary' = parsed.summary
           /\ summary_order' = parsed.order
           /\ log_pc' = IF parsed.exc = "none" THEN "done" ELSE "raised"
    /\ UNCHANGED log_file_string
    /\ UNCHANGED pingVars

NextLog ==
    \/ get_log_file_string
    \/ ParseLog

SpecLog == InitLog /\ [][NextLog]_vars

(***************************************************************************)
(* Properties.                                                             *)
(***************************************************************************)
\* parse_ping_response has finished on `response`, by returning or by raising
ParserReturned == pc = "parsed"
ParserFinished == pc = "parsed" \/ (pc = "raised" /\ ~classifier_ran)

ResponseLines == splitlines(response)

FirstLineOf(text) ==
    IF Contains(text, "\n") THEN SubSeq(text, 1, FirstIndex(text, "\n") - 1) ELSE text

MarkerInFirstLine ==
    Len(response) > 0 /\ COMMAND_EXIT_ERROR_MESSAGE \in Range(FirstLineOf(response))

NoNumericField(d) == DOMAIN d \cap NumericKeys = {}

\* C1: a response whose first line contains the execution-failure marker is
\* parsed to LOCAL_ROUTER_ERROR for the local router and MODEM_ERROR for any
\* other target, able_to_resolve_host false and no numeric field, whatever
\* the other lines hold.
C1_ExecutionFailure ==
    (ParserFinished /\ MarkerInFirstLine) =>
        /\ ParserReturned
        /\ parsed_ping_dict.error =
              (IF url = LOCAL_ROUTER THEN LOCAL_ROUTER_ERROR ELSE MODEM_ERROR)
        /\ parsed_ping_dict.able_to_resolve_host = FALSE
        /\ NoNumericField(parsed_ping_dict)

C1_Witness ==
    /\ ParserReturned
    /\ MarkerInFirstLine
    /\ url = EXTERNAL_HOST
    /\ Len(ResponseLines) = 3
    /\ Contains(ResponseLines[2], "packet loss")
    /\ parsed_ping_dict.error = MODEM_ERROR

SingleLineNoMarker == Len(ResponseLines) = 1 /\ ~MarkerInFirstLine

\* C2: a one-line response without the marker is parsed to
\* able_to_resolve_host false, no numeric field and diagnosis None; the
\* classifier then sets RESOLVE_HOST_ERROR.
C2_SingleLine ==
    (pc \in {"parsed", "done", "raised"} /\ SingleLineNoMarker) =>
        /\ pc # "raised"
        /\ parsed_ping_dict.able_to_resolve_host = FALSE
        /\ NoNumericField(parsed_ping_dict)
        /\ parser_error = None
        /\ pc = "parsed" => parsed_ping_dict.error = None
        /\ pc = "done" => classifier_ran /\ parsed_ping_dict.error = RESOLVE_HOST_ERROR

C2_Witness ==
    /\ pc = "done"
    /\ SingleLineNoMarker
    /\ response = UnknownHostLine \o <<"\n">>
    /\ parsed_ping_dict.error = RESOLVE_HOST_ERROR

\* C3: a well-formed report of two or more lines is parsed to
\* able_to_resolve_host true and exactly the four numeric fields, each with
\* the value the report prints, wherever the packet-loss clause stands among
\* the comma segments; the diagnosis stays None.
C3_SuccessReport ==
    (ParserFinished /\ report.printed) =>
        LET p == report.values
        IN  /\ ParserReturned
            /\ DOMAIN parsed_ping_dict =
                  {"host", "able_to_resolve_host", "error"} \cup NumericKeys
            /\ parsed_ping_dict.able_to_resolve_host = TRUE
            /\ parsed_ping_dict.host = url
            /\ parsed_ping_dict.error = None
            /\ parsed_ping_dict.num_packets_sent = p.sent
            /\ FloatEq(parsed_ping_dict.packet_loss_percent, p.loss)
            /\ FloatEq(parsed_ping_dict.average_round_trip_time, p.average)
            /\ FloatEq(parsed_ping_dict.max_round_trip_time, p.maximum)

C3_Witness ==
    /\ ParserReturned
    /\ report.printed
    /\ report.values.extra = 1
    /\ report.values.sent = 10
    /\ report.values.headers = 1
    /\ parsed_ping_dict.able_to_resolve_host
    /\ parsed_ping_dict.num_packets_sent = 10

LossAbove(d) ==
    d.packet_loss_percent.m > MAX_ACCEPTABLE_PACKET_LOSS * Pow10(d.packet_loss_percent.e)

AverageAbove(d) ==
    d.average_round_trip_time.m >
        MAX_ACCEPTABLE_AVERAGE_ROUND_TRIP_TIME * Pow10(d.average_round_trip_time.e)

HasBothMetrics(d) == {"packet_loss_percent", "average_round_trip_time"} \subseteq DOMAIN d

\* C4: the classifier decides in the order unresolved, loss strictly above
\* the limit, average strictly above the limit, else OK, and the first match
\* wins; values equal to a limit are acceptable.
C4_ClassifierOrder ==
    classifier_ran =>
        LET d == classifier_input
            got == parsed_ping_dict.error
        IN  /\ ~d.able_to_resolve_host => exc = "none" /\ got = RESOLVE_HOST_ERROR
            /\ (d.able_to_resolve_host /\ HasBothMetrics(d)) =>
                  /\ exc = "none"
                  /\ LossAbove(d) => got = PACKET_LOSS_ERROR
                  /\ (~LossAbove(d) /\ AverageAbove(d)) => got = ROUND_TRIP_TIME_ERROR
                  /\ (~LossAbove(d) /\ ~AverageAbove(d)) => got = OK
                  /\ (d.packet_loss_percent.m =
                         MAX_ACCEPTABLE_PACKET_LOSS * Pow10(d.packet_loss_percent.e))
                        => got # PACKET_LOSS_ERROR
                  /\ (d.average_round_trip_time.m =
                         MAX_ACCEPTABLE_AVERAGE_ROUND_TRIP_TIME
                            * Pow10(d.average_round_trip_time.e))
                        => got # ROUND_TRIP_TIME_ERROR

C4_Witness ==
    /\ classifier_ran
    /\ ~classifier_input.able_to_resolve_host
    /\ HasBothMetrics(classifier_input)
    /\ LossAbove(classifier_input)
    /\ AverageAbove(classifier_input)
    /\ parsed_ping_dict.error = RESOLVE_HOST_ERROR

\* C5 as stated: an unresolved parser result has no numeric field and a
\* diagnosis the parser itself already set to LOCAL_ROUTER_ERROR,
\* MODEM_ERROR or RESOLVE_HOST_ERROR.
C5_Original ==
    (ParserReturned /\ ~parsed_ping_dict.able_to_resolve_host) =>
        /\ NoNumericField(parsed_ping_dict)
        /\ parsed_ping_dict.error \in {LOCAL_ROUTER_ERROR, MODEM_ERROR, RESOLVE_HOST_ERROR}

\* C5 amended: an unresolved parser result has no numeric field, and its
\* diagnosis is LOCAL_ROUTER_ERROR or MODEM_ERROR when the first line has
\* the execution-failure marker and otherwise still None, for a one-line
\* response only; RESOLVE_HOST_ERROR is set afterwards, by the classifier.
C5_UnresolvedResult ==
    /\ (ParserReturned /\ ~parsed_ping_dict.able_to_resolve_host) =>
          /\ NoNumericField(parsed_ping_dict)
          /\ parsed_ping_dict.error \in {LOCAL_ROUTER_ERROR, MODEM_ERROR, None}
          /\ parsed_ping_dict.error = None <=> SingleLineNoMarker
          /\ parsed_ping_dict.error # None <=> MarkerInFirstLine
    /\ (pc = "done" /\ parsed_ping_dict.error = RESOLVE_HOST_ERROR) =>
          classifier_ran /\ parser_error = None

C5_Witness ==
    /\ ParserReturned
    /\ ~parsed_ping_dict.able_to_resolve_host
    /\ parsed_ping_dict.error = None
    /\ SingleLineNoMarker

LogLines == splitlines(log_file_string)

HasBanner(line) ==
    {LOGGER_STARTING_LOG, LOGGER_STATUS_CHECK_RUNNING_MESSAGE} \cap Range(line) # {}

\* the text before the first '-' and the text after it
TimestampSegment(line) == SubSeq(line, 1, FirstIndex(line, "-") - 1)
MessageSegment(line) == SubSeq(line, FirstIndex(line, "-") + 1, Len(line))

DateKey(line) ==
    LET stamp == TimestampSegment(line)
    IN  IF "@" \in Range(stamp) THEN SubSeq(stamp, 1, FirstIndex(stamp, "@") - 1) ELSE stamp

\* C6 as stated: each counter of each date equals the number of
\* non-lifecycle lines of that date whose message, everything after the
\* first '-', contains the category's marker, also behind a later '-'.
C6_Original ==
    log_pc = "done" =>
        \A date \in DOMAIN internet_status_summary :
            \A i \in 1..Len(log_message_error_to_summary_key_map) :
                LET entry == log_message_error_to_summary_key_map[i]
                IN  internet_status_summary[date][entry.key] =
                        Cardinality({n \in 1..Len(LogLines) :
                                        /\ ~HasBanner(LogLines[n])
                                        /\ DateKey(LogLines[n]) = date
                                        /\ entry.error \in Range(MessageSegment(LogLines[n]))})

RECURSIVE WithoutBanners(_)
WithoutBanners(lines) ==
    IF Len(lines) = 0 THEN <<>>
    ELSE IF HasBanner(lines[1]) THEN WithoutBanners(Tail(lines))
    ELSE <<lines[1]>> \o WithoutBanners(Tail(lines))

\* C7: lines holding the logger-starting banner or the status-check
\* heartbeat create no date and change no counter: the outcome is the
\* outcome for the log with those lines removed, and a log of such lines
\* only gives the empty mapping.
C7_LifecycleLinesIgnored ==
    log_pc \in {"done", "raised"} =>
        LET kept == WithoutBanners(LogLines)
            plain == parse_log(JoinLines(kept))
        IN  /\ log_exc = plain.exc
            /\ internet_status_summary = plain.summary
            /\ summary_order = plain.order
            /\ Len(kept) = 0 =>
                  /\ log_pc = "done"
                  /\ DOMAIN internet_status_summary = {}
                  /\ summary_order = <<>>

C7_Witness ==
    /\ log_pc = "done"
    /\ Len(LogLines) = 3
    /\ HasBanner(LogLines[2])
    /\ MODEM_ERROR \in Range(LogLines[2])
    /\ ~HasBanner(LogLines[1])
    /\ ~HasBanner(LogLines[3])
    /\ summary_order = <<<<"Jan01">>, <<"Jan02">>>>

WellFormedLogLine(line) ==
    /\ "-" \in Range(line)
    /\ "@" \in Range(TimestampSegment(line))

\* C8 as stated: a non-lifecycle line without '-' or '@' never aborts the
\* aggregation and never becomes a date entry, and the dates of all
\* well-formed lines are in the mapping returned.
C8_Original ==
    log_pc \in {"done", "raised"} =>
        /\ log_exc = "none"
        /\ DOMAIN internet_status_summary =
              {DateKey(LogLines[n]) :
                  n \in {k \in 1..Len(LogLines) :
                            ~HasBanner(LogLines[k]) /\ WellFormedLogLine(LogLines[k])}}

\* C9 as stated: for an empty response, and for a response of two or more
\* lines without the marker, the parser raises nothing and never returns
\* able_to_resolve_host true with one of the four numeric fields missing.
C9_Original ==
    (ParserFinished /\ (Len(ResponseLines) = 0
                           \/ (Len(ResponseLines) >= 2 /\ ~MarkerInFirstLine))) =>
        /\ exc = "none"
        /\ parsed_ping_dict.able_to_resolve_host => NumericKeys \subseteq DOMAIN parsed_ping_dict

FinalDiagnoses ==
    {LOCAL_ROUTER_ERROR, MODEM_ERROR, RESOLVE_HOST_ERROR, PACKET_LOSS_ERROR,
     ROUND_TRIP_TIME_ERROR, OK}

\* C10: on the write path the classifier runs exactly when the parser left
\* the diagnosis None; a LOCAL_ROUTER_ERROR or MODEM_ERROR of the parser is
\* kept and no field of such a result is read by the classifier; the
\* result returned has one of the six final diagnoses, never None.
C10_WritePath ==
    /\ (pc = "done" \/ (pc = "raised" /\ classifier_ran)) =>
          (classifier_ran <=> parser_error = None)
    /\ pc \in {"idle", "pinged", "parsed"} => ~classifier_ran
    /\ (pc = "done" /\ parser_error \in {LOCAL_ROUTER_ERROR, MODEM_ERROR}) =>
          /\ parsed_ping_dict.error = parser_error
          /\ read_keys = {}
    /\ pc = "done" =>
          /\ parsed_ping_dict.error \in FinalDiagnoses
          /\ parsed_ping_dict.error # None

C10_Witness ==
    /\ pc = "done"
    /\ parser_error = MODEM_ERROR
    /\ parsed_ping_dict.error = MODEM_ERROR
    /\ ~classifier_ran

====
